---- MODULE Spec2Model ----
(***************************************************************************)
(* A model of the data-freshness engine of infoCanvas: the useStockData    *)
(* hook (src/hooks/useStockData.ts), its fetch client fetchStockData, its  *)
(* synthetic series generator generateDemoData, and the React scheduling   *)
(* of the hook's effect (re-run whenever a dependency changed), its        *)
(* setInterval refresh timer and its in-flight fetches.                    *)
(*                                                                         *)
(* Time is Date.now(), counted in units of 10 ms so that a month of        *)
(* milliseconds fits TLC's 32-bit integers: Ms(n) is n milliseconds.       *)
(***************************************************************************)
EXTENDS Integers, Sequences, FiniteSets, TLC

(***************************************************************************)
(* Bounds of the exploration.                                              *)
(***************************************************************************)
\* The clock stops advancing after this many minutes.
MaxMinutes == 6
\* Upstream fetch attempts issued in one run, over all subscriptions.
MaxFetches == 3
\* Changes of the subscribed key (symbol, interval), over all subscriptions.
MaxKeyChanges == 2
\* Math.random() outcomes told apart in a generated series.
NumSeeds == 1
\* Entries of a time series handed to the normalisation on its own.
MaxRows == 3

\* Bars of a series handed to the classifiers, the series of five apart.
MaxBars == 2

(***************************************************************************)
(* Program constants.                                                      *)
(***************************************************************************)
\* n milliseconds, in the model's unit of time
Ms(n) == n \div 10
\* setTimeout(() => controller.abort(), 10000)
FetchTimeoutMs == Ms(10000)
\* const minTimeBetweenFetches = 5 * 60 * 1000
MinTimeBetweenFetches == Ms(5 * 60 * 1000)
\* setIsUsingDemoData(timeRegularity < 100)
RegularityMs == Ms(100)
\* Math.min(daysToGenerate * intervalsPerDay, 5000)
MaxDemoBars == 5000
\* if (isUsingDemoData && retryCount >= 2)
MaxRetries == 2

MinuteMs == Ms(60 * 1000)

Intervals == {"1min", "5min", "15min", "30min", "60min", "daily", "weekly", "monthly"}

Abs(x) == IF x < 0 THEN -x ELSE x
Min(a, b) == IF a < b THEN a ELSE b

(***************************************************************************)
(* Keys.  cacheKey is `${symbol}-${interval}`; the empty string is the     *)
(* initial lastFetchParams.                                                *)
(***************************************************************************)
CacheKey(symbol, interval) == [symbol |-> symbol, interval |-> interval]
NoKey == [symbol |-> "", interval |-> ""]

(***************************************************************************)
(* Subscriptions: the call sites of the hook.  page.tsx subscribes to AAPL *)
(* at the interval of the IntervalContext (default 5min, changed from the  *)
(* header); ChartOverlay subscribes to its symbol at 60min / weekly /      *)
(* monthly, following its time-frame buttons (initially 'day': 60min).     *)
(***************************************************************************)
Hooks == {"page", "overlay"}

PropKeys(h) ==
    IF h = "page"
    THEN {CacheKey("AAPL", i) : i \in {"1min", "5min"}}
    ELSE {CacheKey("AAPL", i) : i \in {"60min", "weekly", "monthly"}}

InitialKey(h) ==
    IF h = "page" THEN CacheKey("AAPL", "5min") ELSE CacheKey("AAPL", "60min")

\* The header also offers the daily interval.
DailyKeys(h) ==
    IF h = "page"
    THEN {CacheKey("AAPL", i) : i \in {"5min", "daily"}}
    ELSE {}

\* The header is set to 60min, and the chart of AAPL is on its 'day' time
\* frame (60min): the two subscriptions can hold the same key.
SharedKeys(h) == {CacheKey("AAPL", "60min")}

\* The header switching among three intraday intervals.
ThreeKeys(h) ==
    IF h = "page"
    THEN {CacheKey("AAPL", i) : i \in {"1min", "5min", "15min"}}
    ELSE {}

AllKeys ==
    UNION {PropKeys(h) \cup DailyKeys(h) \cup SharedKeys(h) \cup ThreeKeys(h) : h \in Hooks}

(***************************************************************************)
(* Series.  A series fetched from upstream holds its bars' timestamps in   *)
(* ts; a generated series is told by the instant it was generated at       *)
(* (end), its interval and the random draw (seed): its bars are one step   *)
(* of the interval apart (Delta).  stockData = null is the series of kind  *)
(* "null".  close holds the close of each bar of a fetched series, as      *)
(* parsed.  ref tells arrays of equal content apart: React compares state  *)
(* and dependencies with Object.is, and every fetch attempt resolves with  *)
(* an array of its own (ref is the attempt's number, 0 for an array made   *)
(* outside an attempt).                                                    *)
(***************************************************************************)
Null ==
    [kind |-> "null", symbol |-> "", interval |-> "", end |-> 0, seed |-> 0, ts |-> <<>>,
     close |-> <<>>, ref |-> 0]

\* The array of the bars (each with its timestamp t and its close).
ApiSeries(symbol, interval, bars) ==
    [kind |-> "api", symbol |-> symbol, interval |-> interval, end |-> 0, seed |-> 0,
     ts |-> [i \in 1..Len(bars) |-> bars[i].t],
     close |-> [i \in 1..Len(bars) |-> bars[i].close], ref |-> 0]

\* The same bars, whichever array holds them.
SameSeries(a, b) == [a EXCEPT !.ref = 0] = [b EXCEPT !.ref = 0]

\* switch (interval) { case '1min': intervalMinutes = 1; ... }
intervalMinutes(interval) ==
    CASE interval = "1min" -> 1
      [] interval = "5min" -> 5
      [] interval = "15min" -> 15
      [] interval = "30min" -> 30
      [] interval = "60min" -> 60
      [] interval = "daily" -> 24 * 60
      [] interval = "weekly" -> 7 * 24 * 60
      [] interval = "monthly" -> 30 * 24 * 60
      [] OTHER -> 5

daysToGenerate(interval) ==
    CASE interval = "1min" -> 7
      [] interval = "5min" -> 30
      [] interval = "15min" -> 60
      [] interval = "30min" -> 90
      [] interval = "60min" -> 120
      [] interval = "daily" -> 365
      [] interval = "weekly" -> 520
      [] interval = "monthly" -> 240
      [] OTHER -> 30

\* A count without the upper limit, against which C13 is tried.
totalIntervalsUncapped(interval) ==
    (daysToGenerate(interval) * 24 * 60) \div intervalMinutes(interval) + 1

\* The number of turns of `for (let i = 0; i < totalIntervals; i++)`, with
\* totalIntervals = Math.min(daysToGenerate * (24 * 60 / intervalMinutes), 5000),
\* which is a fraction for weekly: the loop runs ceil(totalIntervals) times.
totalIntervals(interval) ==
    LET m == intervalMinutes(interval)
        n == daysToGenerate(interval) * 24 * 60
    IN  Min((n + m - 1) \div m, MaxDemoBars)

\* A generator that yields no bars, against which C7 is tried.
generateNoBars(symbol, interval, nowT, seed) ==
    [kind |-> "api", symbol |-> symbol, interval |-> interval, end |-> 0, seed |-> 0,
     ts |-> <<>>, close |-> <<>>, ref |-> 0]

\* generateDemoData: bars at now - i * intervalMinutes * 60 * 1000, sorted ascending.
generateDemoData(symbol, interval, nowT, seed) ==
    [kind |-> "gen", symbol |-> symbol, interval |-> interval, end |-> nowT, seed |-> seed,
     ts |-> <<>>, close |-> <<>>, ref |-> 0]

(***************************************************************************)
(* The bars of generateDemoData.  Prices are in hundredths; the outcomes   *)
(* of Math.random() are drawn from small sets, in the unit each use of it  *)
(* is scaled to: rw is randomWalk in thousandths (within 2% volatility),   *)
(* rH and rL the rises of high and falls of low in ten-thousandths (up to  *)
(* 1%), rO, rC and rV percentages; cum is cumulativeFactor in thousandths, *)
(* a product of factors between 0.99 and 1.01.                             *)
(***************************************************************************)
Symbols == {"AAPL", "MSFT", "GOOGL", "AMZN", "META", "TSLA", "NVDA", "XYZ"}

\* switch (symbol) { case 'AAPL': basePrice = 175.0; ... default: basePrice = 100.0 }
basePrice(symbol) ==
    CASE symbol = "AAPL" -> 17500
      [] symbol = "MSFT" -> 33800
      [] symbol = "GOOGL" -> 13000
      [] symbol = "AMZN" -> 14500
      [] symbol = "META" -> 31800
      [] symbol = "TSLA" -> 26000
      [] symbol = "NVDA" -> 70000
      [] OTHER -> 10000

\* trend === 'up' ? 0.01 : trend === 'down' ? -0.01 : 0, in thousandths
trendFactor(trend) ==
    CASE trend = "up" -> 10
      [] trend = "down" -> -10
      [] OTHER -> 0

Trends == {"up", "down", "mixed"}
WalkDraws == {-20, 0, 19}
CumDraws == {900, 1000, 1100}
SpreadDraws == {0, 99}
PercentDraws == {0, 99}

\* Math.min(daysToGenerate * intervalsPerDay, 5000), in hundredths of a bar:
\* the value `i / totalIntervals` divides by.
totalIntervalsX100(interval) ==
    Min((daysToGenerate(interval) * 24 * 60 * 100) \div intervalMinutes(interval),
        MaxDemoBars * 100)

\* The bar pushed by turn i of the loop.
DemoBar(symbol, interval, i, trend, cum, rw, rH, rL, rO, rC, rV) ==
    LET drift == (i * 100 * trendFactor(trend)) \div totalIntervalsX100(interval)
        price == (((basePrice(symbol) * cum) \div 1000) * (1000 + rw + drift)) \div 1000
        high == (price * (10000 + rH)) \div 10000
        low == (price * (10000 - rL)) \div 10000
        volumeBase == 100000 + rV * 9000
    IN  [i |-> i, open |-> low + (rO * (high - low)) \div 100, high |-> high, low |-> low,
         close |-> low + (rC * (high - low)) \div 100,
         volume |-> (volumeBase * (1000 + Abs(rw) * 5)) \div 1000]

\* data.length
Length(s) ==
    CASE s.kind = "api" -> Len(s.ts)
      [] s.kind = "gen" -> totalIntervals(s.interval)
      [] OTHER -> 0

\* data[i + 1].timestamp.getTime() - data[i].timestamp.getTime(), i counted
\* from 0.  The bars of a generated series are at now - j * intervalMinutes *
\* 60 * 1000, sorted ascending: neighbours are one step apart.
Delta(s, i) ==
    IF s.kind = "api"
    THEN s.ts[i + 2] - s.ts[i + 1]
    ELSE intervalMinutes(s.interval) * MinuteMs

(***************************************************************************)
(* The upstream response.                                                  *)
(***************************************************************************)
\* The time-series field of the payload for each interval.
LabelOf(interval) ==
    CASE interval = "1min" -> "Time Series (1min)"
      [] interval = "5min" -> "Time Series (5min)"
      [] interval = "15min" -> "Time Series (15min)"
      [] interval = "30min" -> "Time Series (30min)"
      [] interval = "60min" -> "Time Series (60min)"
      [] interval = "daily" -> "Time Series (Daily)"
      [] interval = "weekly" -> "Weekly Time Series"
      [] interval = "monthly" -> "Monthly Time Series"
      [] OTHER -> "Time Series (5min)"

\* A body: an 'Error Message' field, a 'Note' field, or one time-series field
\* named label whose entries are listed newest first, as upstream sends them.
Body(error, note, label, entries) ==
    [error |-> error, note |-> note, label |-> label, entries |-> entries]

\* A number, in hundredths, or NaN.
Num(v) == [nan |-> FALSE, v |-> v]
NaN == [nan |-> TRUE, v |-> 0]

\* parseFloat on the texts a '4. close' field is given here: the longest
\* numeric prefix, NaN when there is none (values['4. close'] missing reads
\* as undefined, which parses to NaN as well).
parseFloat(text) ==
    CASE text = "150.25" -> Num(15025)
      [] text = "94.00" -> Num(9400)
      [] text = "12abc" -> Num(1200)
      [] text = "abc" -> NaN
      [] text = "" -> NaN
      [] OTHER -> NaN

\* An entry of a time series: its key (the timestamp t) and the text of its
\* '4. close' field; open, high and low are parsed by the same parseFloat.
Row(t, close) == [t |-> t, close |-> close]

\* Entries at the timestamps ts, each with a well-formed close.
Rows(ts) == [i \in 1..Len(ts) |-> Row(ts[i], "150.25")]

\* The time series upstream may send (entries newest first): none, two, three
\* whose deltas differ by exactly 100 ms, five equally spaced ones, and
\* three with a close that does not parse.
Payloads ==
    { Rows(<<>>),
      Rows(<<Ms(60000), 0>>),
      Rows(<<Ms(120100), Ms(60000), 0>>),
      Rows(<<Ms(240000), Ms(180000), Ms(120000), Ms(60000), 0>>),
      <<Row(Ms(120100), "150.25"), Row(Ms(60000), "abc"), Row(0, "150.25")>> }

Bodies(interval) ==
    {Body(TRUE, FALSE, "", <<>>), Body(FALSE, TRUE, "", <<>>),
     Body(FALSE, FALSE, "Meta Data", <<>>)}
    \cup {Body(FALSE, FALSE, LabelOf(interval), p) : p \in Payloads}

\* getTimeSeriesFromResponse: data[label of the interval] || null
getTimeSeriesFromResponse(data, interval) ==
    IF data.label = LabelOf(interval)
    THEN [found |-> TRUE, entries |-> data.entries]
    ELSE [found |-> FALSE, entries |-> <<>>]

\* Array.prototype.sort((a, b) => aTime - bTime), as an insertion sort.
RECURSIVE Insert(_, _)
Insert(x, s) ==
    IF s = <<>> THEN <<x>>
    ELSE IF x.t < Head(s).t THEN <<x>> \o s
    ELSE <<Head(s)>> \o Insert(x, Tail(s))

RECURSIVE SortAsc(_)
SortAsc(s) == IF s = <<>> THEN <<>> ELSE Insert(Head(s), SortAsc(Tail(s)))

(***************************************************************************)
(* fetchStockData.  An attempt ends in one of the outcomes below; the      *)
(* result says whether the promise resolves (kind "return") or rejects     *)
(* (kind "throw"), with which series, after how many generateDemoData      *)
(* calls and how many addLogMessage calls since the response.              *)
(***************************************************************************)
Outcomes == {"network", "timeout", "http", "errorMessage", "note", "missingKey", "ok"}
Failures == Outcomes \ {"ok"}

Return(series, gens, logs) == [kind |-> "return", series |-> series, gens |-> gens, logs |-> logs]
Throw(logs) == [kind |-> "throw", series |-> Null, gens |-> 0, logs |-> logs]

\* How an attempt that got a body ends.
BodyOutcome(data, interval) ==
    IF data.error THEN "errorMessage"
    ELSE IF data.note THEN "note"
    ELSE IF ~getTimeSeriesFromResponse(data, interval).found THEN "missingKey"
    ELSE "ok"

\* The mapping without the sort, against which C14 is tried.
mapOnly(entries) ==
    [i \in 1..Len(entries) |->
        [t |-> entries[i].t, close |-> parseFloat(entries[i].close)]]

\* Object.entries(timeSeriesData).map(...).sort(...): each entry becomes a
\* bar with its fields parsed, and the bars are sorted by timestamp.
normalize(entries) ==
    SortAsc([i \in 1..Len(entries) |->
                [t |-> entries[i].t, close |-> parseFloat(entries[i].close)]])

\* The inner try block and its catch (which logs the abort and rethrows).
InnerTry(symbol, interval, outcome, data, nowT, seed) ==
    CASE outcome = "network" -> Throw(0)
      [] outcome = "timeout" -> Throw(1)
      [] outcome = "http" -> Throw(0)
      [] outcome = "errorMessage" -> Throw(0)
      [] outcome = "note" -> Return(generateDemoData(symbol, interval, nowT, seed), 1, 1)
      [] outcome = "missingKey" -> Return(generateDemoData(symbol, interval, nowT, seed), 1, 0)
      [] OTHER ->
           Return(ApiSeries(symbol, interval,
                            normalize(getTimeSeriesFromResponse(data, interval).entries)),
                  0, 1)

\* An outer catch that lets the error escape, against which C1 is tried.
OuterCatchRethrows(r, symbol, interval, nowT, seed) == r

\* The outer catch: log the error and return generateDemoData(symbol, interval).
OuterCatch(r, symbol, interval, nowT, seed) ==
    IF r.kind = "throw"
    THEN Return(generateDemoData(symbol, interval, nowT, seed), 1, r.logs + 1)
    ELSE r

fetchStockData(symbol, interval, outcome, data, nowT, seed) ==
    OuterCatch(InnerTry(symbol, interval, outcome, data, nowT, seed), symbol, interval, nowT, seed)

(***************************************************************************)
(* The demo-data detection of fetchData: with at least 3 bars, the first   *)
(* two timestamp deltas differ by less than 100 ms.                        *)
(***************************************************************************)
timeRegularity(data) ==
    Abs(Delta(data, 1) - Delta(data, 0))

\* A detection that finds no series regular, against which C8 is tried.
DetectDemoNever(data, before) ==
    IF Length(data) >= 3 THEN FALSE ELSE before

\* The value of isUsingDemoData after the check, given its value before.
DetectDemo(data, before) ==
    IF Length(data) >= 3 THEN timeRegularity(data) < RegularityMs ELSE before

(***************************************************************************)
(* shouldFetchNewData, on the state s the callback closed over.            *)
(***************************************************************************)
\* The default max age for every interval, against which C24 is tried.
cacheMaxAgeDefault(interval) == 15 * 60 * Ms(1000)

cacheMaxAge(interval) ==
    CASE interval = "1min" -> 5 * 60 * Ms(1000)
      [] interval = "5min" -> 15 * 60 * Ms(1000)
      [] interval \in {"15min", "30min", "60min"} -> 60 * 60 * Ms(1000)
      [] interval = "daily" -> 24 * 60 * 60 * Ms(1000)
      [] interval = "weekly" -> 7 * 24 * 60 * 60 * Ms(1000)
      [] interval = "monthly" -> 30 * 24 * 60 * 60 * Ms(1000)
      [] OTHER -> 15 * 60 * Ms(1000)

NoEntry == [present |-> FALSE, data |-> Null, timestamp |-> 0]
Entry(data, timestamp) == [present |-> TRUE, data |-> data, timestamp |-> timestamp]

\* The circuit breaker: demo data in use and the retries used up.
BreakerOpen(s) == s.isUsingDemoData /\ s.retryCount >= MaxRetries

\* A decision that does not tell a changed key, against which C26 is tried.
shouldFetchNewDataNoReset(s, cache, cacheKey, nowT) ==
    IF BreakerOpen(s)
    THEN [fetch |-> FALSE, changed |-> FALSE]
    ELSE IF s.lastFetchParams # cacheKey
    THEN [fetch |-> TRUE, changed |-> FALSE]
    ELSE [fetch |-> FALSE, changed |-> FALSE]

\* [fetch: the value returned, changed: whether setLastFetchParams(cacheKey)
\* and setRetryCount(0) were called]
shouldFetchNewData(s, cache, cacheKey, nowT) ==
    IF BreakerOpen(s)
    THEN [fetch |-> FALSE, changed |-> FALSE]
    ELSE IF s.lastFetchParams # cacheKey
    THEN [fetch |-> TRUE, changed |-> TRUE]
    ELSE IF nowT - s.fetchTimestamp < MinTimeBetweenFetches
    THEN [fetch |-> FALSE, changed |-> FALSE]
    ELSE IF cache[cacheKey].present
            /\ nowT - cache[cacheKey].timestamp < cacheMaxAge(cacheKey.interval)
    THEN [fetch |-> FALSE, changed |-> FALSE]
    ELSE [fetch |-> TRUE, changed |-> FALSE]


(***************************************************************************)
(* The state.  Every subscription (hook instance) h has its own React      *)
(* state and, through useMemo(() => new Map(), []), its own apiCache.      *)
(***************************************************************************)
VARIABLES
    subs,             \* the subscriptions the application renders
    now,              \* Date.now()
    status,           \* h -> "absent" | "mounted" | "unmounted"
    props,            \* h -> the key (symbol, effectiveInterval) the hook is called with
    stockData,        \* h -> useState<StockData[] | null>(null)
    isUsingDemoData,  \* h -> useState(false)
    loading,          \* h -> useState(true)
    retryCount,       \* h -> useState(0)
    lastFetchParams,  \* h -> useState('')
    fetchTimestamp,   \* h -> useState(0)
    apiCache,         \* h -> key -> cache entry
    deps,             \* h -> the dependencies the effect last ran with
    timer,            \* h -> the setInterval timer of the effect
    inflight,         \* the fetch attempts that have not settled
    timeouts,         \* the pending setTimeout(() => controller.abort(), 10000) timers
    issued,           \* fetch attempts issued so far
    keyChanges,       \* key changes so far
    seen,             \* h -> the keys fetchData was called for
    run,              \* h -> the calls of fetchData since the key last changed
    ev,               \* what the last step did: a call of fetchData, a settled attempt
    menu,             \* h -> the keys the parent of h may select
    pure              \* the last call of a function that has no state, and its result

vars == <<subs, now, status, props, stockData, isUsingDemoData, loading, retryCount,
          lastFetchParams, fetchTimestamp, apiCache, deps, timer, inflight,
          timeouts, issued, keyChanges, seen, run, ev, menu, pure>>

\* The state of the subscriptions.
hookVars == <<subs, now, status, props, stockData, isUsingDemoData, loading, retryCount,
              lastFetchParams, fetchTimestamp, apiCache, deps, timer, inflight,
              timeouts, issued, keyChanges, seen, run, ev, menu>>

Seeds == 1..NumSeeds
MaxTime == MaxMinutes * MinuteMs

\* The state a render of h closes over.
HookState(h) ==
    [stockData |-> stockData[h], isUsingDemoData |-> isUsingDemoData[h],
     loading |-> loading[h], retryCount |-> retryCount[h],
     lastFetchParams |-> lastFetchParams[h], fetchTimestamp |-> fetchTimestamp[h]]

\* The effect's dependency list [fetchData, effectiveInterval, isUsingDemoData,
\* retryCount, symbol, lastFetchParams]; fetchData changes with symbol,
\* effectiveInterval, shouldFetchNewData, retryCount and stockData, and
\* shouldFetchNewData with isUsingDemoData, lastFetchParams, retryCount and
\* fetchTimestamp.
Deps(h) ==
    [key |-> props[h], stockData |-> stockData[h], isUsingDemoData |-> isUsingDemoData[h],
     retryCount |-> retryCount[h], lastFetchParams |-> lastFetchParams[h],
     fetchTimestamp |-> fetchTimestamp[h]]

NoDeps ==
    [key |-> NoKey, stockData |-> Null, isUsingDemoData |-> FALSE, retryCount |-> 0,
     lastFetchParams |-> NoKey, fetchTimestamp |-> 0]

\* React has rendered h with dependencies the effect has not run with yet.
EffectPending(h) == status[h] = "mounted" /\ deps[h] # Deps(h)

\* React flushes the effects of a render before it handles the next event.
Flushed == \A h \in Hooks : ~EffectPending(h)

\* The timer the last effect run armed (armed, due, period), and the number
\* of setInterval timers of the subscription that have not been cleared
\* (live).
NoTimer == [armed |-> FALSE, due |-> 0, period |-> 0, live |-> 0]

\* The live timers left by the cleanup of the run that armed t: the run
\* that armed a timer clears it, a run that armed none clears nothing.
AfterCleanup(t) == t.live - (IF t.armed THEN 1 ELSE 0)

\* The calls of one subscription with one same key: the latest fetch attempt
\* among them (fetchId, fetchAt), the series it settled with (yield), the
\* series the latest call less than 5 minutes after it served (served), and
\* the failed attempts for the key settled in a row (fails).
NoRun ==
    [key |-> NoKey, fetchId |-> 0, fetchAt |-> 0, fails |-> 0, yield |-> Null,
     served |-> Null]

NoEvent ==
    [type |-> "none", by |-> "", hook |-> "", key |-> NoKey, id |-> 0, branch |-> "", outcome |-> "",
     data |-> Null, rejected |-> FALSE, threw |-> FALSE, gens |-> 0, logs |-> 0,
     first |-> FALSE, mounted |-> FALSE, prevKey |-> NoKey, sinceAttempt |-> -1,
     refetch |-> FALSE, fails |-> 0, breaker |-> FALSE, cacheAge |-> -1,
     demoBefore |-> FALSE, body |-> Body(FALSE, FALSE, "", <<>>), hadTimer |-> FALSE,
     started |-> 0]

InitWith(S) ==
    /\ subs = S
    /\ now = 0
    /\ status = [h \in Hooks |-> "absent"]
    /\ props = [h \in Hooks |-> InitialKey(h)]
    /\ stockData = [h \in Hooks |-> Null]
    /\ isUsingDemoData = [h \in Hooks |-> FALSE]
    /\ loading = [h \in Hooks |-> TRUE]
    /\ retryCount = [h \in Hooks |-> 0]
    /\ lastFetchParams = [h \in Hooks |-> NoKey]
    /\ fetchTimestamp = [h \in Hooks |-> 0]
    /\ apiCache = [h \in Hooks |-> [k \in AllKeys |-> NoEntry]]
    /\ deps = [h \in Hooks |-> NoDeps]
    /\ timer = [h \in Hooks |-> NoTimer]
    /\ inflight = {}
    /\ timeouts = {}
    /\ issued = 0
    /\ keyChanges = 0
    /\ seen = [h \in Hooks |-> {}]
    /\ run = [h \in Hooks |-> NoRun]
    /\ ev = NoEvent

NoPure == [op |-> "none", arg |-> <<>>, res |-> <<>>]

\* The dashboard alone: one subscription.
Init ==
    /\ InitWith({"page"})
    /\ menu = [h \in Hooks |-> PropKeys(h)]
    /\ pure = NoPure

(***************************************************************************)
(* fetchData up to its await, on the state s it closed over: the branch    *)
(* taken, the state and the cache it leaves, and the generateDemoData      *)
(* calls it made.                                                          *)
(***************************************************************************)
fetchData(s, cache, cacheKey, nowT, seed) ==
    IF cache[cacheKey].present
    THEN LET data == cache[cacheKey].data
         IN  [branch |-> "hit",
              state |-> [s EXCEPT !.stockData = data,
                                  !.isUsingDemoData = DetectDemo(data, @),
                                  !.loading = FALSE],
              cache |-> cache, gens |-> 0, threw |-> FALSE]
    ELSE LET d == shouldFetchNewData(s, cache, cacheKey, nowT)
             s1 == IF d.changed
                   THEN [s EXCEPT !.lastFetchParams = cacheKey, !.retryCount = 0]
                   ELSE s
         IN  IF ~d.fetch
             THEN IF s.stockData = Null
                  THEN LET demoData == generateDemoData(cacheKey.symbol, cacheKey.interval,
                                                        nowT, seed)
                       IN  [branch |-> "gen",
                            state |-> [s1 EXCEPT !.stockData = demoData,
                                                 !.isUsingDemoData = TRUE,
                                                 !.loading = FALSE],
                            cache |-> [cache EXCEPT ![cacheKey] = Entry(demoData, nowT)],
                            gens |-> 1, threw |-> FALSE]
                  ELSE [branch |-> "skip", state |-> [s1 EXCEPT !.loading = FALSE],
                        cache |-> cache, gens |-> 0, threw |-> FALSE]
             ELSE [branch |-> "fetch",
                   state |-> [s1 EXCEPT !.retryCount = @ + 1, !.fetchTimestamp = nowT],
                   cache |-> cache, gens |-> 0, threw |-> FALSE]

\* A period for every interval, against which C15 is tried.
updateIntervalAll(interval) == intervalMinutes(interval) * MinuteMs

\* The timer the effect arms after getStockData(), on the state it closed over.
updateInterval(interval) ==
    CASE interval = "1min" -> 60 * Ms(1000)
      [] interval = "5min" -> 5 * 60 * Ms(1000)
      [] interval = "15min" -> 15 * 60 * Ms(1000)
      [] interval = "30min" -> 30 * 60 * Ms(1000)
      [] interval = "60min" -> 60 * 60 * Ms(1000)
      [] OTHER -> 0

ArmTimer(s, interval, nowT) ==
    IF s.isUsingDemoData \/ s.retryCount >= MaxRetries THEN NoTimer
    ELSE IF updateInterval(interval) = 0 THEN NoTimer
    ELSE [armed |-> TRUE, due |-> nowT + updateInterval(interval),
          period |-> updateInterval(interval), live |-> 1]

\* The attempts in S, with n more generateDemoData calls counted for those of key k.
CountGens(S, k, n) ==
    {IF g.key = k THEN [g EXCEPT !.gens = @ + n] ELSE g : g \in S}

\* A fetch attempt was made for the run's key less than 5 minutes before t.
WithinSpacing(r, t) == r.fetchId # 0 /\ t - r.fetchAt < MinTimeBetweenFetches

(***************************************************************************)
(* getStockData() of hook h, called by the effect or by its timer: the     *)
(* part of fetchData before its await.  A fetch decision starts            *)
(* fetchStockData: the start is logged (logs), the request is sent and the *)
(* abort timer armed.                                                      *)
(***************************************************************************)
CallFetchData(h, seed, by) ==
    LET key == props[h]
        s == HookState(h)
        r == fetchData(s, apiCache[h], key, now, seed)
        id == issued + 1
        base == IF run[h].key = key THEN run[h] ELSE [NoRun EXCEPT !.key = key]
        entry == apiCache[h][key]
    IN  /\ r.branch = "fetch" => issued < MaxFetches
        /\ stockData' = [stockData EXCEPT ![h] = r.state.stockData]
        /\ isUsingDemoData' = [isUsingDemoData EXCEPT ![h] = r.state.isUsingDemoData]
        /\ retryCount' = [retryCount EXCEPT ![h] = r.state.retryCount]
        /\ lastFetchParams' = [lastFetchParams EXCEPT ![h] = r.state.lastFetchParams]
        /\ fetchTimestamp' = [fetchTimestamp EXCEPT ![h] = r.state.fetchTimestamp]
        /\ apiCache' = [apiCache EXCEPT ![h] = r.cache]
        /\ IF r.branch = "fetch"
           THEN /\ inflight' = inflight \cup
                       {[id |-> id, hook |-> h, key |-> key, now |-> now,
                         phase |-> "fetch", gens |-> 0, first |-> key \notin seen[h],
                         hadData |-> s.stockData # Null, logs |-> 1]}
                /\ timeouts' = timeouts \cup {[id |-> id, due |-> now + FetchTimeoutMs]}
                /\ issued' = id
           ELSE /\ inflight' = CountGens(inflight, key, r.gens)
                /\ UNCHANGED <<timeouts, issued>>
        /\ seen' = [seen EXCEPT ![h] = @ \cup {key}]
        /\ run' = [run EXCEPT ![h] =
              IF r.branch = "fetch"
              THEN [base EXCEPT !.fetchId = id, !.fetchAt = now, !.yield = Null,
                                !.served = Null]
              ELSE IF WithinSpacing(base, now)
              THEN [base EXCEPT !.served = r.state.stockData]
              ELSE base]
        /\ ev' = [NoEvent EXCEPT
               !.type = "call", !.by = by, !.hook = h, !.key = key, !.branch = r.branch,
               !.threw = r.threw, !.gens = r.gens, !.prevKey = run[h].key,
               !.sinceAttempt = IF s.lastFetchParams = NoKey THEN -1
                                ELSE now - s.fetchTimestamp,
               !.refetch = r.branch = "fetch" /\ WithinSpacing(base, now),
               !.fails = base.fails, !.breaker = BreakerOpen(s),
               !.cacheAge = IF entry.present THEN now - entry.timestamp ELSE -1,
               !.demoBefore = s.isUsingDemoData, !.hadTimer = timer[h].armed]
        /\ UNCHANGED <<menu, pure, subs, now, status, props, keyChanges>>

\* The loading flag after a call made with loading value l0 by then.
LoadingAfter(h, l0, seed) ==
    LET r == fetchData(HookState(h), apiCache[h], props[h], now, seed)
    IN  IF r.branch = "fetch" THEN l0 ELSE r.state.loading

\* An effect whose cleanup leaves the timer of the previous run armed,
\* against which C16 is tried.
RunEffectKeepsTimer(h) ==
    /\ EffectPending(h)
    /\ \E seed \in Seeds :
          /\ CallFetchData(h, seed, "effect")
          /\ loading' = [loading EXCEPT ![h] =
                LoadingAfter(h, lastFetchParams[h] # props[h] \/ loading[h], seed)]
    /\ deps' = [deps EXCEPT ![h] = Deps(h)]
    /\ timer' = [timer EXCEPT ![h] =
          IF @.armed THEN @ ELSE ArmTimer(HookState(h), props[h].interval, now)]

\* An effect that arms its timer without the cleanup of the previous run,
\* against which C29 is tried.
RunEffectLeaks(h) ==
    /\ EffectPending(h)
    /\ \E seed \in Seeds :
          /\ CallFetchData(h, seed, "effect")
          /\ loading' = [loading EXCEPT ![h] =
                LoadingAfter(h, lastFetchParams[h] # props[h] \/ loading[h], seed)]
    /\ deps' = [deps EXCEPT ![h] = Deps(h)]
    /\ timer' = [timer EXCEPT ![h] =
          LET new == ArmTimer(HookState(h), props[h].interval, now)
          IN  [new EXCEPT !.live = timer[h].live + new.live]]

(***************************************************************************)
(* The effect of hook h: React runs the cleanup of the previous run        *)
(* (clearInterval), then the effect with the state of the latest render.   *)
(***************************************************************************)
RunEffect(h) ==
    /\ EffectPending(h)
    /\ \E seed \in Seeds :
          /\ CallFetchData(h, seed, "effect")
          /\ loading' = [loading EXCEPT ![h] =
                LoadingAfter(h, lastFetchParams[h] # props[h] \/ loading[h], seed)]
    /\ deps' = [deps EXCEPT ![h] = Deps(h)]
    /\ timer' = [timer EXCEPT ![h] =
          LET new == ArmTimer(HookState(h), props[h].interval, now)
          IN  [new EXCEPT !.live = AfterCleanup(timer[h]) + new.live]]

\* The setInterval timer of h fires: getStockData() with the closure of the
\* effect run that armed it.
TimerFire(h) ==
    /\ Flushed
    /\ status[h] = "mounted"
    /\ timer[h].armed
    /\ now >= timer[h].due
    /\ \E seed \in Seeds :
          /\ CallFetchData(h, seed, "timer")
          /\ loading' = [loading EXCEPT ![h] = LoadingAfter(h, loading[h], seed)]
    /\ timer' = [timer EXCEPT ![h].due = @ + timer[h].period]
    /\ UNCHANGED deps

\* A continuation that stores the series but does not cache it, against
\* which C4 is tried.
AfterAwaitNoCache(f, r, s, cache, nowT, seed) ==
    [state |-> [s EXCEPT !.stockData = r.series,
                         !.isUsingDemoData = DetectDemo(r.series, @),
                         !.loading = FALSE],
     cache |-> cache, gens |-> 0, threw |-> FALSE]

(***************************************************************************)
(* fetchData after `await fetchStockData(symbol, effectiveInterval)`, for  *)
(* the attempt f whose promise settled as r: the try block's remainder, or *)
(* the catch block when the promise rejected.  s is the state of the       *)
(* subscription now; the closure's own values are in f.                    *)
(***************************************************************************)
AfterAwait(f, r, s, cache, nowT, seed) ==
    IF r.kind = "return"
    THEN [state |-> [s EXCEPT !.stockData = r.series,
                              !.isUsingDemoData = DetectDemo(r.series, @),
                              !.loading = FALSE],
          cache |-> [cache EXCEPT ![f.key] = Entry(r.series, f.now)],
          gens |-> 0, threw |-> FALSE]
    ELSE IF ~f.hadData
    THEN LET demoData == generateDemoData(f.key.symbol, f.key.interval, nowT, seed)
         IN  [state |-> [s EXCEPT !.stockData = demoData, !.isUsingDemoData = TRUE,
                                  !.loading = FALSE],
              cache |-> [cache EXCEPT ![f.key] = Entry(demoData, f.now)],
              gens |-> 1, threw |-> FALSE]
    ELSE [state |-> [s EXCEPT !.loading = FALSE], cache |-> cache, gens |-> 0,
          threw |-> FALSE]

\* The attempt f settles with the given outcome; tm is what is left of the
\* abort timers.  setState on an unmounted component changes nothing, the
\* Map the closure holds is still written.
Settle(f, outcome, data, seed, tm) ==
    LET h == f.hook
        r0 == fetchStockData(f.key.symbol, f.key.interval, outcome, data, now, seed)
        r == IF r0.kind = "return" THEN [r0 EXCEPT !.series.ref = f.id] ELSE r0
        a == AfterAwait(f, r, HookState(h), apiCache[h], now, seed)
        m == status[h] = "mounted"
        n == r.gens + a.gens
    IN  /\ stockData' = [stockData EXCEPT ![h] = IF m THEN a.state.stockData ELSE @]
        /\ isUsingDemoData' =
              [isUsingDemoData EXCEPT ![h] = IF m THEN a.state.isUsingDemoData ELSE @]
        /\ loading' = [loading EXCEPT ![h] = IF m THEN a.state.loading ELSE @]
        /\ apiCache' = [apiCache EXCEPT ![h] = a.cache]
        /\ inflight' = CountGens(inflight \ {f}, f.key, n)
        /\ timeouts' = tm
        /\ run' = [run EXCEPT ![h] =
              IF @.key # f.key THEN @
              ELSE [@ EXCEPT !.fails = IF outcome \in Failures THEN @ + 1 ELSE 0,
                             !.yield = IF run[h].fetchId = f.id THEN r.series ELSE @]]
        /\ ev' = [NoEvent EXCEPT
               !.type = "done", !.hook = h, !.key = f.key, !.id = f.id,
               !.outcome = outcome, !.data = r.series, !.rejected = r.kind = "throw",
               !.threw = a.threw, !.gens = f.gens + n, !.logs = r.logs,
               !.first = f.first, !.mounted = m, !.demoBefore = isUsingDemoData[h],
               !.body = data, !.started = f.logs]
        /\ UNCHANGED <<menu, pure, subs, now, status, props, retryCount, lastFetchParams,
                       fetchTimestamp, deps, timer, issued, keyChanges, seen>>

AbortTimer(f) == {t \in timeouts : t.id = f.id}

\* The response arrives (fetch resolves): clearTimeout(timeoutId); a status
\* that is not OK throws, otherwise response.json() is awaited.
Respond(f, ok) ==
    /\ Flushed
    /\ f \in inflight
    /\ f.phase = "fetch"
    /\ IF ok
       THEN /\ inflight' = (inflight \ {f}) \cup {[f EXCEPT !.phase = "json"]}
            /\ timeouts' = timeouts \ AbortTimer(f)
            /\ ev' = NoEvent
            /\ UNCHANGED <<menu, pure, subs, now, status, props, stockData, isUsingDemoData, loading,
                           retryCount, lastFetchParams, fetchTimestamp, apiCache, deps,
                           timer, issued, keyChanges, seen, run>>
       ELSE \E seed \in Seeds :
               Settle(f, "http", Body(FALSE, FALSE, "", <<>>), seed, timeouts \ AbortTimer(f))

\* The transport fails (fetch rejects): the abort timer is left pending.
NetworkFail(f) ==
    /\ Flushed
    /\ f \in inflight
    /\ f.phase = "fetch"
    /\ \E seed \in Seeds :
          Settle(f, "network", Body(FALSE, FALSE, "", <<>>), seed, timeouts)

\* The body arrives (response.json() resolves).
BodyArrives(f, data) ==
    /\ Flushed
    /\ f \in inflight
    /\ f.phase = "json"
    /\ \E seed \in Seeds :
          Settle(f, BodyOutcome(data, f.key.interval), data, seed, timeouts)

\* The abort timers that would reject a fetch still awaited.
LiveTimeouts == {t \in timeouts : \E f \in inflight : f.id = t.id /\ f.phase = "fetch"}

\* An abort timer fires, 10 seconds after its request was sent, while the
\* fetch is still awaited: controller.abort() rejects it with an AbortError.
TimeoutFire(t) ==
    /\ Flushed
    /\ t \in LiveTimeouts
    /\ now >= t.due
    /\ \E f \in inflight, seed \in Seeds :
          /\ f.id = t.id
          /\ Settle(f, "timeout", Body(FALSE, FALSE, "", <<>>), seed, timeouts \ {t})

(***************************************************************************)
(* The collaborators: the parent changes the key, mounts a subscriber,     *)
(* unmounts it.                                                             *)
(***************************************************************************)
SetKey(h, k) ==
    /\ Flushed
    /\ status[h] = "mounted"
    /\ k \in menu[h] \ {props[h]}
    /\ keyChanges < MaxKeyChanges
    /\ props' = [props EXCEPT ![h] = k]
    /\ keyChanges' = keyChanges + 1
    /\ ev' = NoEvent
    /\ UNCHANGED <<menu, pure, subs, now, status, stockData, isUsingDemoData, loading, retryCount,
                   lastFetchParams, fetchTimestamp, apiCache, deps, timer, inflight,
                   timeouts, issued, seen, run>>

Mount(h) ==
    /\ Flushed
    /\ h \in subs
    /\ status[h] = "absent"
    /\ status' = [status EXCEPT ![h] = "mounted"]
    /\ ev' = NoEvent
    /\ UNCHANGED <<menu, pure, subs, now, props, stockData, isUsingDemoData, loading, retryCount,
                   lastFetchParams, fetchTimestamp, apiCache, deps, timer, inflight,
                   timeouts, issued, keyChanges, seen, run>>

\* An unmount whose cleanup does not clear the timer, against which C17 is
\* tried.
UnmountKeepsTimer(h) ==
    /\ Flushed
    /\ status[h] = "mounted"
    /\ status' = [status EXCEPT ![h] = "unmounted"]
    /\ ev' = NoEvent
    /\ UNCHANGED <<menu, pure, subs, now, props, stockData, isUsingDemoData, loading, retryCount,
                   lastFetchParams, fetchTimestamp, apiCache, deps, timer, inflight,
                   timeouts, issued, keyChanges, seen, run>>

\* The cleanup of the last effect run: isMounted = false; clearInterval(timer).
Unmount(h) ==
    /\ Flushed
    /\ status[h] = "mounted"
    /\ status' = [status EXCEPT ![h] = "unmounted"]
    /\ timer' = [timer EXCEPT ![h] = [NoTimer EXCEPT !.live = AfterCleanup(timer[h])]]
    /\ ev' = NoEvent
    /\ UNCHANGED <<menu, pure, subs, now, props, stockData, isUsingDemoData, loading, retryCount,
                   lastFetchParams, fetchTimestamp, apiCache, deps, inflight,
                   timeouts, issued, keyChanges, seen, run>>

(***************************************************************************)
(* Time.  React re-renders and re-runs a pending effect, and the event     *)
(* loop fires a due timer, before the clock moves on; the clock moves to   *)
(* the next timer that is due or by the minimum fetch spacing.  An abort   *)
(* timer left behind by an attempt that has settled fires on the way and   *)
(* does nothing.                                                           *)
(***************************************************************************)
Deadlines ==
    {timer[h].due : h \in {g \in Hooks : status[g] = "mounted" /\ timer[g].armed}}
    \cup {t.due : t \in LiveTimeouts}

TickTargets ==
    {t \in Deadlines \cup {now + MinTimeBetweenFetches} :
        /\ t > now
        /\ t <= MaxTime
        /\ \A d \in Deadlines : t <= d}

Tick(t) ==
    /\ Flushed
    /\ t \in TickTargets
    /\ now' = t
    /\ timeouts' = {x \in timeouts : x \in LiveTimeouts \/ x.due > t}
    /\ ev' = NoEvent
    /\ UNCHANGED <<menu, pure, subs, status, props, stockData, isUsingDemoData, loading, retryCount,
                   lastFetchParams, fetchTimestamp, apiCache, deps, timer, inflight,
                   issued, keyChanges, seen, run>>

Next ==
    \/ \E h \in Hooks : RunEffect(h)
    \/ \E h \in Hooks : TimerFire(h)
    \/ \E f \in inflight, ok \in BOOLEAN : Respond(f, ok)
    \/ \E f \in inflight : NetworkFail(f)
    \/ \E f \in inflight : \E data \in Bodies(f.key.interval) : BodyArrives(f, data)
    \/ \E t \in timeouts : TimeoutFire(t)
    \/ \E h \in Hooks : \E k \in AllKeys : SetKey(h, k)
    \/ \E h \in Hooks : Mount(h)
    \/ \E h \in Hooks : Unmount(h)
    \/ \E t \in TickTargets : Tick(t)

Spec == Init /\ [][Next]_vars

\* Upstream is prompt: no attempt is left unresolved beyond the 10 seconds
\* of its abort timer, so the clock does not pass that instant while the
\* attempt is in flight.
TickPrompt(t) ==
    /\ \A f \in inflight : t <= f.now + FetchTimeoutMs
    /\ Tick(t)

NextPrompt ==
    \/ \E h \in Hooks : RunEffect(h)
    \/ \E h \in Hooks : TimerFire(h)
    \/ \E f \in inflight, ok \in BOOLEAN : Respond(f, ok)
    \/ \E f \in inflight : NetworkFail(f)
    \/ \E f \in inflight : \E data \in Bodies(f.key.interval) : BodyArrives(f, data)
    \/ \E t \in timeouts : TimeoutFire(t)
    \/ \E h \in Hooks : \E k \in AllKeys : SetKey(h, k)
    \/ \E h \in Hooks : Mount(h)
    \/ \E h \in Hooks : Unmount(h)
    \/ \E t \in TickTargets : TickPrompt(t)

SpecPrompt == Init /\ [][NextPrompt]_vars

\* The dashboard with the header switching between 5min and daily.
InitDaily ==
    /\ InitWith({"page"})
    /\ menu = [h \in Hooks |-> DailyKeys(h)]
    /\ pure = NoPure

SpecDaily == InitDaily /\ [][Next]_vars

\* The dashboard and the chart overlay of AAPL: two subscriptions.
InitShared ==
    /\ InitWith(Hooks)
    /\ menu = [h \in Hooks |-> SharedKeys(h)]
    /\ pure = NoPure

\* Upstream answers a body with a 'Note' or with three bars that are not
\* equally spaced, and the subscriptions stay mounted.
SharedBodies(interval) ==
    {Body(FALSE, TRUE, "", <<>>),
     Body(FALSE, FALSE, LabelOf(interval), Rows(<<Ms(120100), Ms(60000), 0>>))}

NextShared ==
    \/ \E h \in Hooks : RunEffect(h)
    \/ \E h \in Hooks : TimerFire(h)
    \/ \E f \in inflight, ok \in BOOLEAN : Respond(f, ok)
    \/ \E f \in inflight : NetworkFail(f)
    \/ \E f \in inflight : \E data \in SharedBodies(f.key.interval) : BodyArrives(f, data)
    \/ \E t \in timeouts : TimeoutFire(t)
    \/ \E h \in Hooks : \E k \in AllKeys : SetKey(h, k)
    \/ \E h \in Hooks : Mount(h)
    \/ \E t \in TickTargets : Tick(t)

SpecShared == InitShared /\ [][NextShared]_vars

\* The dashboard alone, its header switching among three intervals, with
\* the same answers of upstream.
InitThree ==
    /\ InitWith({"page"})
    /\ menu = [h \in Hooks |-> ThreeKeys(h)]
    /\ pure = NoPure

SpecThree == InitThree /\ [][NextShared]_vars

(***************************************************************************)
(* The functions that have no state, each applied to inputs drawn from     *)
(* small sets, once: no subscription is rendered.                          *)
(***************************************************************************)
InitPure ==
    /\ InitWith({})
    /\ menu = [h \in Hooks |-> {}]
    /\ pure = NoPure

\* The symbols series are generated for: two of the listed ones and one
\* that takes the default base price.
GenSymbols == {"AAPL", "NVDA", "XYZ"}

\* generateDemoData(symbol, interval): the length of the series and the bar
\* of one turn of the loop (the first or the last), under one outcome of the
\* random draws.
Generate(symbol, interval, i, trend, cum, rw, rH, rL, rO, rC, rV) ==
    /\ pure' = [op |-> "generate",
                arg |-> [symbol |-> symbol, interval |-> interval],
                res |-> [length |-> Length(generateDemoData(symbol, interval, 0, 1)),
                         bar |-> DemoBar(symbol, interval, i, trend, cum, rw, rH, rL,
                                         rO, rC, rV)]]
    /\ UNCHANGED hookVars

\* The keys of a time-series object are distinct and come in any order.
Stamps == {0, Ms(60000), Ms(120100), Ms(300000)}

Objects ==
    {Rows(s) : s \in {q \in UNION {[1..n -> Stamps] : n \in 0..MaxRows} :
                        \A i, j \in DOMAIN q : i # j => q[i] # q[j]}}

\* The fields a body may hold its one time series under.
Labels == {LabelOf(i) : i \in Intervals} \cup {"Meta Data"}

\* fetchStockData from `const data = await response.json()` on, for a body
\* that holds the time series rows under label.
Normalize(label, rows, interval) ==
    LET data == Body(FALSE, FALSE, label, rows)
    IN  /\ pure' = [op |-> "normalize",
                    arg |-> [data |-> data, interval |-> interval],
                    res |-> fetchStockData("AAPL", interval, BodyOutcome(data, interval),
                                           data, 0, 1)]
        /\ UNCHANGED hookVars

(***************************************************************************)
(* The status classifiers.  A series is read through its closes only; a    *)
(* close is a price in hundredths, and the comparisons of a percent change *)
(* with a threshold are made on integers: with prev > 0,                   *)
(* (latest - prev) / prev * 100 <= n / 10 is (latest - prev) * 1000 <=     *)
(* n * prev.  The arithmetic is exact: the rounding of the quotient in a   *)
(* double, which can move a change that lies on a threshold by one unit in *)
(* the last place, is not modelled.                                        *)
(***************************************************************************)
StatusType == {"surge", "up", "stable", "crash", "down", "abnormal", "unknown"}

\* `StockData[] | null`
NoData == [null |-> TRUE, close |-> <<>>]
Bars(closes) == [null |-> FALSE, close |-> closes]

\* No override: null and '' are both falsy in `if (demoState)`.
NoOverride == ""

\* ((latest - prev) / prev) * 100 against n tenths of a percent.
AtMost(prev, latest, n) == (latest - prev) * 1000 <= n * prev
AtLeast(prev, latest, n) == (latest - prev) * 1000 >= n * prev

\* The thresholds with the boundaries left out, against which C18 is tried.
shortTermStrict(prev, latest) ==
    IF ~AtLeast(prev, latest, -30) THEN "crash"
    ELSE IF ~AtLeast(prev, latest, -5) THEN "down"
    ELSE IF ~AtMost(prev, latest, 30) THEN "surge"
    ELSE IF ~AtMost(prev, latest, 5) THEN "up"
    ELSE "stable"

\* The status from the change between the two most recent closes.
shortTerm(prev, latest) ==
    IF AtMost(prev, latest, -30) THEN "crash"
    ELSE IF AtMost(prev, latest, -5) THEN "down"
    ELSE IF AtLeast(prev, latest, 30) THEN "surge"
    ELSE IF AtLeast(prev, latest, 5) THEN "up"
    ELSE "stable"

\* 'Consider long-term trends as well': a stable status of a series of five
\* bars or more follows the change since the fifth bar from the end.
longTerm(st, close) ==
    LET n == Len(close)
    IN  IF st = "stable" /\ n >= 5
        THEN IF AtMost(close[n - 4], close[n], -50) THEN "down"
             ELSE IF AtLeast(close[n - 4], close[n], 50) THEN "up"
             ELSE st
        ELSE st

\* The status effect of the container that classifies by itself: the
\* override first, then the series; short is the status before the
\* long-term trend is considered.
StallContainerStatus(data, demoState) ==
    IF demoState # NoOverride
    THEN LET s == IF demoState \in StatusType \ {"unknown"} THEN demoState
                  ELSE "unknown"
         IN  [short |-> s, status |-> s]
    ELSE IF data.null \/ Len(data.close) < 2
    THEN [short |-> "unknown", status |-> "unknown"]
    ELSE LET n == Len(data.close)
             s == shortTerm(data.close[n - 1], data.close[n])
         IN  [short |-> s, status |-> longTerm(s, data.close)]

\* The status a stall displays: the one it is handed, unless it holds a
\* series of two bars or more, which it classifies again.
StallItemStatus(data, st) ==
    IF ~data.null /\ Len(data.close) >= 2
    THEN LET n == Len(data.close)
         IN  shortTerm(data.close[n - 1], data.close[n])
    ELSE st

\* (last - first) / first against n hundredths.
Above(first, last, n) == (last - first) * 100 > n * first
Below(first, last, n) == (last - first) * 100 < n * first

getStockStatus(data, demoState) ==
    IF demoState # NoOverride THEN demoState
    ELSE IF data.null \/ Len(data.close) < 2 THEN "unknown"
    ELSE LET first == data.close[1]
             last == data.close[Len(data.close)]
         IN  IF Above(first, last, 5) THEN "surge"
             ELSE IF Above(first, last, 1) THEN "up"
             ELSE IF Below(first, last, -5) THEN "crash"
             ELSE IF Below(first, last, -1) THEN "down"
             ELSE IF ~Above(first, last, 1) /\ ~Below(first, last, -1) THEN "stable"
             ELSE "abnormal"

\* Closes around 100.00 that put the change between two of them on, next to
\* and far from every threshold.
Closes == {9400, 9700, 9950, 9980, 10000, 10050, 10300, 10350}

\* The older bars of a series of five: the fifth close from the end lies
\* well below, at, or well above the recent ones.
Olds == {9000, 10000, 11000}

Series ==
    {NoData}
    \cup {Bars(s) : s \in UNION {[1..n -> Closes] : n \in 0..MaxBars}}
    \cup {Bars(<<o, 10000, 10000>> \o s) : o \in Olds, s \in [1..2 -> Closes]}

\* The values of the `state` parameter of the page: none, the statuses,
\* and a string that is no status.
Overrides == {NoOverride, "foo"} \cup StatusType

\* The status of one series under one override: by the container that
\* classifies by itself (short, container), as the stall displays what that
\* container passes to it (shown), by getStockStatus (status), and as the
\* stall displays the latter (displayed).
Classify(data, demoState) ==
    LET c == StallContainerStatus(data, demoState)
    IN  /\ pure' = [op |-> "classify",
                    arg |-> [data |-> data, demoState |-> demoState],
                    res |-> [short |-> c.short,
                             container |-> c.status,
                             shown |-> StallItemStatus(data, c.status),
                             displayed |-> StallItemStatus(data, getStockStatus(data, demoState)),
                             status |-> getStockStatus(data, demoState)]]
        /\ UNCHANGED hookVars

\* The two tables of the hook for one interval: the period the effect gives
\* its timer (0: no timer) and the max age shouldFetchNewData allows a cache
\* entry.
Tables(interval) ==
    /\ pure' = [op |-> "tables",
                arg |-> [interval |-> interval],
                res |-> [updateInterval |-> updateInterval(interval),
                         cacheMaxAge |-> cacheMaxAge(interval)]]
    /\ UNCHANGED hookVars

\* Nothing has been applied yet.
Fresh == pure = NoPure

NextPure ==
    \/ /\ Fresh
       /\ \E symbol \in GenSymbols, interval \in Intervals, trend \in Trends,
             cum \in CumDraws, rw \in WalkDraws, rH \in SpreadDraws, rL \in SpreadDraws,
             rO \in PercentDraws, rC \in PercentDraws, rV \in PercentDraws :
             \E i \in {0, totalIntervals(interval) - 1} :
                Generate(symbol, interval, i, trend, cum, rw, rH, rL, rO, rC, rV)
    \/ /\ Fresh
       /\ \E label \in Labels, rows \in Objects, interval \in Intervals :
             Normalize(label, rows, interval)
    \/ /\ Fresh
       /\ \E data \in Series, demoState \in Overrides : Classify(data, demoState)
    \/ /\ Fresh
       /\ \E interval \in Intervals : Tables(interval)

SpecPure == InitPure /\ [][NextPure]_vars

(***************************************************************************)
(* The properties.  ev tells what the step into the state did: a call of   *)
(* fetchData (resolve) up to its first await, or the completion of a fetch *)
(* attempt.                                                                *)
(***************************************************************************)
Called == ev.type = "call"
Done == ev.type = "done"

\* At least 3 bars, and every two consecutive timestamp deltas differ by
\* less than 100 ms.  The bars of a generated series are exactly one step
\* of the interval apart.
AllRegular(s) ==
    /\ Length(s) >= 3
    /\ s.kind = "api" =>
          \A i \in 0..(Len(s.ts) - 3) : Abs(Delta(s, i + 1) - Delta(s, i)) < RegularityMs

\* C1: whatever the outcome of a fetch attempt (network failure, abort after
\* 10 seconds, HTTP status that is not OK, 'Error Message' body, 'Note'
\* body, body without the time-series field, success), fetchStockData
\* resolves with a series and does not reject, and fetchData throws
\* neither before nor after its await.
C1_NeverRejects ==
    /\ Done => ~ev.rejected /\ ~ev.threw /\ ev.data # Null
    /\ Called => ~ev.threw

\* A fetch aborted by its 10-second timer has resolved with a generated series.
C1_Witness ==
    Done /\ ev.outcome = "timeout" /\ ~ev.rejected /\ ev.data.kind = "gen"

\* C2: idempotence.  A call with the same key less than 5 minutes after a
\* fetch attempt of an earlier call issues no fetch, and the series it
\* serves is the series that attempt yields.
C2_Idempotent ==
    /\ Called => ~ev.refetch
    /\ \A h \in Hooks :
          run[h].yield # Null /\ run[h].served # Null
              => SameSeries(run[h].served, run[h].yield)

\* C3: key-change bypass.  A call whose key differs from the key of the
\* previous call issues a fetch attempt, whatever the cache, isUsingDemoData
\* and retryCount hold.
C3_KeyChangeFetches ==
    Called /\ ev.prevKey # NoKey /\ ev.prevKey # ev.key => ev.branch = "fetch"

C5_CacheExpiry ==
    Called /\ ev.prevKey = ev.key /\ ~ev.breaker
           /\ ev.sinceAttempt >= MinTimeBetweenFetches /\ ev.cacheAge >= 0
        => IF ev.cacheAge < cacheMaxAge(ev.key.interval)
           THEN ev.branch = "hit"
           ELSE ev.branch = "fetch"

\* C6: at most one fetch attempt is in flight for a key.
C6_OneInFlightPerKey ==
    \A f, g \in inflight : f.key = g.key => f = g

\* C7: when a failed fetch attempt completes (network failure, timeout, HTTP
\* error, 'Error Message' body, 'Note' body, missing time-series field), the
\* cache entry of its key holds a generated series, and isUsingDemoData of
\* the subscription, if it is still mounted, is true.
C7_FailureStoresSynthetic ==
    Done /\ ev.outcome \in Failures
        => /\ apiCache[ev.hook][ev.key].present
           /\ apiCache[ev.hook][ev.key].data.kind = "gen"
           /\ apiCache[ev.hook][ev.key].data = ev.data
           /\ Length(apiCache[ev.hook][ev.key].data) > 0
           /\ ev.mounted => isUsingDemoData[ev.hook]

\* An attempt that failed on an HTTP status while isUsingDemoData was false
\* has left a generated series in the cache and the flag true.
C7_Witness ==
    /\ Done /\ ev.outcome = "http" /\ ev.mounted /\ ~ev.demoBefore
    /\ apiCache[ev.hook][ev.key].data.kind = "gen"
    /\ isUsingDemoData[ev.hook]

\* C8: demo-detection override.  When a series with at least 3 bars, all of
\* whose consecutive timestamp deltas differ by less than 100 ms, is resolved
\* by a successful fetch or from the cache, isUsingDemoData is true
\* afterwards.
C8_DemoDetection ==
    /\ Done /\ ev.outcome = "ok" /\ ev.mounted /\ AllRegular(ev.data)
          => isUsingDemoData[ev.hook]
    /\ Called /\ ev.branch = "hit" /\ AllRegular(stockData[ev.hook])
          => isUsingDemoData[ev.hook]

\* A successful fetch of 5 equally spaced bars, made while isUsingDemoData
\* was false, has set the flag.
C8_Witness ==
    /\ Done /\ ev.outcome = "ok" /\ ev.mounted /\ ~ev.demoBefore
    /\ ev.data.kind = "api" /\ Length(ev.data) = 5 /\ AllRegular(ev.data)
    /\ isUsingDemoData[ev.hook]

\* C9: rate limit.  When the attempt of the first call for a key gets a body
\* with a 'Note' field, the series is not empty, isUsingDemoData is true,
\* nothing is thrown, and generateDemoData has run exactly once for the key
\* between the call and the completion of the attempt.
C9_NoteGeneratesOnce ==
    Done /\ ev.outcome = "note" /\ ev.first /\ ev.mounted
        => /\ Length(ev.data) > 0
           /\ isUsingDemoData[ev.hook]
           /\ ~ev.rejected /\ ~ev.threw
           /\ ev.gens = 1

\* C10: after a successful fetch of a series that does not meet the
\* demo-detection condition, of any length and whatever isUsingDemoData was
\* before, the cache entry holds the series and isUsingDemoData is false.
C10_SuccessClearsFlag ==
    Done /\ ev.outcome = "ok" /\ ev.mounted /\ ~AllRegular(ev.data)
        => /\ apiCache[ev.hook][ev.key].present
           /\ apiCache[ev.hook][ev.key].data = ev.data
           /\ ~isUsingDemoData[ev.hook]

\* C11: empty result.  When the body holds the time series of the requested
\* interval with no entries, the attempt is handled as a failure: the series
\* it resolves with comes from generateDemoData and is not empty, the cache
\* entry holds it, and a mounted subscription exposes it with
\* isUsingDemoData true.
C11_EmptyResultFallsBack ==
    Done /\ ev.body.label = LabelOf(ev.key.interval) /\ ev.body.entries = <<>>
         /\ ~ev.body.error /\ ~ev.body.note
        => /\ ev.data.kind = "gen"
           /\ Length(ev.data) > 0
           /\ apiCache[ev.hook][ev.key].data = ev.data
           /\ ev.mounted => /\ Length(stockData[ev.hook]) > 0
                            /\ isUsingDemoData[ev.hook]

\* Some bar of the series holds a close that did not parse.
HasNaN(s) == \E i \in 1..Len(s.close) : s.close[i].nan

\* C12: parse failure.  When an entry of the time series has a numeric field
\* that does not parse, the attempt falls back to a generated series, and no
\* series with a NaN field is in the cache or exposed by a subscription.
C12_ParseFailureFallsBack ==
    /\ Done /\ ev.outcome = "ok"
            /\ (\E i \in 1..Len(ev.body.entries) : parseFloat(ev.body.entries[i].close).nan)
          => ev.data.kind = "gen"
    /\ \A h \in Hooks :
          /\ ~HasNaN(stockData[h])
          /\ \A k \in AllKeys : ~HasNaN(apiCache[h][k].data)

Generated == pure.op = "generate"

\* Every bar of a generated series has low <= open <= high,
\* low <= close <= high and volume >= 0.
BarInvariant(b) ==
    /\ b.low <= b.open /\ b.open <= b.high
    /\ b.low <= b.close /\ b.close <= b.high
    /\ b.volume >= 0

Normalized == pure.op = "normalize"

\* The timestamps of the rows.
StampsOf(rows) == {rows[i].t : i \in DOMAIN rows}

\* C14: for a body that holds the time series of the requested interval,
\* the series fetchStockData builds is sorted strictly ascending by
\* timestamp, has as many bars as the time series has entries, and holds
\* their timestamps; a time series under the label of another interval is
\* not selected.
C14_NormalizedSorted ==
    Normalized =>
       LET series == pure.res.series
           rows == pure.arg.data.entries
       IN  IF pure.arg.data.label = LabelOf(pure.arg.interval)
           THEN /\ pure.res.kind = "return"
                /\ series.kind = "api"
                /\ Len(series.ts) = Len(rows)
                /\ \A i \in 1..(Len(series.ts) - 1) : series.ts[i] < series.ts[i + 1]
                /\ {series.ts[i] : i \in DOMAIN series.ts} = StampsOf(rows)
           ELSE series.kind # "api"

\* Three entries that arrive newest first come out oldest first.
C14_Witness ==
    /\ Normalized /\ pure.arg.interval = "weekly"
    /\ pure.arg.data.label = "Weekly Time Series"
    /\ Len(pure.arg.data.entries) = 3
    /\ pure.arg.data.entries[1].t > pure.arg.data.entries[2].t
    /\ pure.arg.data.entries[2].t > pure.arg.data.entries[3].t
    /\ pure.res.series.ts[1] < pure.res.series.ts[2]
    /\ pure.res.series.ts[2] < pure.res.series.ts[3]

Intraday == {"1min", "5min", "15min", "30min", "60min"}

\* C15: scheduler pause.  Once the effects have run after the latest state
\* change, a mounted subscription has an armed refresh timer if and only if
\* isUsingDemoData is false, retryCount < 2 and the interval is intraday.
C15_SchedulerPause ==
    Flushed =>
       \A h \in Hooks :
          status[h] = "mounted" =>
             (timer[h].armed <=> /\ ~isUsingDemoData[h]
                                 /\ retryCount[h] < MaxRetries
                                 /\ props[h].interval \in Intraday)

\* Real data at the daily interval: no timer, though the data is not
\* synthetic and the retries are not used up.
C15_Witness ==
    /\ Flushed /\ status["page"] = "mounted"
    /\ props["page"].interval = "daily"
    /\ stockData["page"].kind = "api" /\ stockData["page"].interval = "daily"
    /\ ~isUsingDemoData["page"] /\ retryCount["page"] < MaxRetries
    /\ ~timer["page"].armed

\* The key of h has changed since its effect last ran.
KeyChanged(h) ==
    status[h] = "mounted" /\ deps[h].key # NoKey /\ deps[h].key # props[h]

\* C16: when the key of a subscription has changed, the next thing to
\* happen is the effect's call of fetchData for the new key, at the same
\* instant; the timer of the previous key is gone by then: a timer armed
\* after the step is a new one, a full period of the new interval away.
C16_KeyChangeRestarts ==
    [][\A h \in Hooks :
          KeyChanged(h) =>
             /\ ev'.type = "call" /\ ev'.by = "effect"
             /\ ev'.hook = h /\ ev'.key = props[h]
             /\ now' = now
             /\ timer'[h].armed =>
                   /\ timer'[h].period = updateInterval(props[h].interval)
                   /\ timer'[h].due = now + timer'[h].period]_vars

\* The effect has called fetchData for a new key while a timer of the
\* previous key was armed, and a timer of the new interval is armed.
C16_Witness ==
    /\ Called /\ ev.by = "effect" /\ ev.hadTimer
    /\ ev.prevKey # NoKey /\ ev.prevKey # ev.key
    /\ timer[ev.hook].armed
    /\ timer[ev.hook].period = updateInterval(ev.key.interval)
    /\ timer[ev.hook].due = now + timer[ev.hook].period

\* The state a hook exposes and keeps between renders.
Exposed(h) ==
    <<stockData[h], isUsingDemoData[h], loading[h], retryCount[h],
      lastFetchParams[h], fetchTimestamp[h]>>

\* C17: an unmounted subscription has no armed timer and fetchData is never
\* called for it again; an attempt that settles after the unmount changes
\* no cache entry but the one of its own key, and changes nothing the hook
\* exposes.
C17_UnmountCancels ==
    [][/\ \A h \in Hooks : status'[h] = "unmounted" => ~timer'[h].armed
       /\ ev'.type = "call" => status'[ev'.hook] = "mounted"
       /\ (ev'.type = "done" /\ ~ev'.mounted) =>
             /\ \A h \in Hooks : \A k \in AllKeys :
                   apiCache'[h][k] # apiCache[h][k] =>
                      h = ev'.hook /\ k = ev'.key
             /\ \A h \in Hooks : Exposed(h)' = Exposed(h)]_vars

\* An attempt issued before the unmount has settled after it and has written
\* the cache entry of its key; no timer is armed.
C17_Witness ==
    /\ Done /\ ~ev.mounted
    /\ status[ev.hook] = "unmounted"
    /\ ~timer[ev.hook].armed
    /\ apiCache[ev.hook][ev.key].present
    /\ apiCache[ev.hook][ev.key].timestamp = now
    /\ now > 0

\* A series of two bars or more has been classified with no override.
Classified ==
    /\ pure.op = "classify"
    /\ pure.arg.demoState = NoOverride
    /\ ~pure.arg.data.null
    /\ Len(pure.arg.data.close) >= 2

\* The change between the two most recent closes of the classified series,
\* in thousandths of the previous close times the previous close.
Recent ==
    LET close == pure.arg.data.close
        n == Len(close)
    IN  [prev |-> close[n - 1], d |-> (close[n] - close[n - 1]) * 1000]

\* C18: with p the percent change between the two most recent closes, the
\* status before the long-term trend is considered, and the status a stall
\* displays, is crash iff p <= -3, down iff -3 < p <= -0.5, surge iff
\* p >= 3, up iff 0.5 <= p < 3, and stable otherwise.
C18_ShortHorizon ==
    Classified =>
       LET a == Recent.prev
           d == Recent.d
           s == pure.res.short
       IN  /\ s = "crash" <=> d <= -30 * a
           /\ s = "down" <=> (-30 * a < d /\ d <= -5 * a)
           /\ s = "surge" <=> d >= 30 * a
           /\ s = "up" <=> (5 * a <= d /\ d < 30 * a)
           /\ s = "stable" <=> (-5 * a < d /\ d < 5 * a)
           /\ s \in {"crash", "down", "surge", "up", "stable"}
           /\ pure.res.displayed = s

\* A fall from 100.00 to 97.00, exactly -3%, has been classified as a crash.
C18_Witness ==
    /\ Classified
    /\ pure.arg.data.close = <<10000, 9700>>
    /\ pure.res.short = "crash"
    /\ pure.res.displayed = "crash"

\* C19: a non-empty override is returned exactly, whatever the series
\* holds, by getStockStatus and by the container that classifies by itself;
\* with no override and a null series or fewer than 2 bars both return
\* unknown.
C19_OverrideFirst ==
    pure.op = "classify" =>
       LET data == pure.arg.data
           demoState == pure.arg.demoState
       IN  /\ demoState # NoOverride =>
                /\ pure.res.status = demoState
                /\ pure.res.container = demoState
           /\ (demoState = NoOverride /\ (data.null \/ Len(data.close) < 2)) =>
                /\ pure.res.status = "unknown"
                /\ pure.res.container = "unknown"

\* The change between the first and the last close of the classified
\* series, in thousandths of the first close times the first close.
Whole ==
    LET close == pure.arg.data.close
    IN  [first |-> close[1], d |-> (close[Len(close)] - close[1]) * 1000]

\* C20: with no override, getStockStatus classifies the percent change p
\* between the first and the last close as crash if p <= -3, down if
\* p <= -0.5, surge if p >= 3, up if p >= 0.5, and stable otherwise: closes
\* [100, 94] are a crash, [100, 99.8] stable and [100, 103.5] a surge.
C20_WholeSeries ==
    Classified =>
       LET a == Whole.first
           d == Whole.d
       IN  pure.res.status =
              IF d <= -30 * a THEN "crash"
              ELSE IF d <= -5 * a THEN "down"
              ELSE IF d >= 30 * a THEN "surge"
              ELSE IF d >= 5 * a THEN "up"
              ELSE "stable"

\* C21: the subscriptions share one cache store: when fetchData is called
\* for a key of which another subscription holds an entry written by a
\* fetch that completed, the call is served from the cache and the caller's
\* entry of the key is that entry.
C21_SharedCache ==
    Called =>
       \A g \in Hooks \ {ev.hook} :
          (apiCache[g][ev.key].present /\ apiCache[g][ev.key].data.ref # 0) =>
             /\ ev.branch = "hit"
             /\ apiCache[ev.hook][ev.key] = apiCache[g][ev.key]

\* C22: a fetch is not awaited beyond 10 seconds after its request was
\* sent: it is then aborted and the attempt resolves with a generated
\* series; once the response has arrived the abort timer of the attempt is
\* cancelled; and when an attempt has resolved, by whatever path, no abort
\* timer of it is pending.
C22_Timeout ==
    /\ \A f \in inflight :
          /\ f.phase = "fetch" => now - f.now <= FetchTimeoutMs
          /\ f.phase = "json" => AbortTimer(f) = {}
    /\ (Done /\ ev.outcome = "timeout") => ev.data.kind = "gen"
    /\ Done => \A x \in timeouts : x.id # ev.id

\* The spans the generated series are to cover, in minutes: 7 days, 365
\* days, 10 years and 20 years.
StatedSpan(interval) ==
    CASE interval = "1min" -> 7 * 24 * 60
      [] interval = "daily" -> 365 * 24 * 60
      [] interval = "weekly" -> 10 * 365 * 24 * 60
      [] interval = "monthly" -> 20 * 365 * 24 * 60
      [] OTHER -> 0

\* C23: for each interval the generated series has exactly
\* min(spanDays * barsPerDay, 5000) bars, one interval apart, and so spans
\* 7 days for 1min, 365 days for daily, and to within a tenth 10 years for
\* weekly and 20 years for monthly.
C23_GeneratedSpan ==
    Generated =>
       LET interval == pure.arg.interval
           m == intervalMinutes(interval)
           n == pure.res.length
       IN  /\ n * m = Min(daysToGenerate(interval) * 24 * 60, MaxDemoBars * m)
           /\ StatedSpan(interval) # 0 =>
                 Abs(n * m - StatedSpan(interval)) * 10 <= StatedSpan(interval)

\* The tables have been read for an intraday interval.
TablesRead == pure.op = "tables" /\ pure.arg.interval \in Intraday

\* C24 as stated: for every intraday interval the period of the refresh
\* timer equals the cache's max age for that interval.
C24_PeriodEqualsMaxAge ==
    TablesRead => pure.res.updateInterval = pure.res.cacheMaxAge

\* C24, amended: for every intraday interval the period of the refresh
\* timer is the length of the interval and does not exceed the cache's max
\* age for that interval, which it equals for 60min only.
C24_PeriodWithinMaxAge ==
    TablesRead =>
       /\ pure.res.updateInterval = intervalMinutes(pure.arg.interval) * MinuteMs
       /\ pure.res.updateInterval <= pure.res.cacheMaxAge
       /\ pure.res.updateInterval = pure.res.cacheMaxAge <=> pure.arg.interval = "60min"

\* For 1min the timer has a period of one minute and the cache a max age of
\* five.
C24_Witness ==
    /\ TablesRead
    /\ pure.arg.interval = "1min"
    /\ pure.res.updateInterval = Ms(60000)
    /\ pure.res.cacheMaxAge = Ms(300000)

\* C25: every fetch attempt writes exactly one log message when it starts
\* and exactly one when it resolves, whatever its outcome.
C25_OneLogEach ==
    Done => ev.started = 1 /\ ev.logs = 1

\* C26: when every fetch attempt resolves within the 10 seconds of its
\* timeout, retryCount is at most 1 in every state, no call of fetchData
\* finds the circuit breaker open, and no effect withholds the timer for
\* retryCount having reached 2.
C26_RetryCountAtMostOne ==
    /\ \A h \in Hooks : retryCount[h] <= 1
    /\ Called => ~ev.breaker

\* A fetch decision has brought retryCount to 1 once more, after a key
\* change that reset it, while the clock has advanced.
C26_Witness ==
    /\ Called /\ ev.branch = "fetch"
    /\ ev.prevKey # NoKey /\ ev.prevKey # ev.key
    /\ retryCount[ev.hook] = 1
    /\ now > 0

\* C27: when an attempt completes whose key is no longer the key of its
\* subscription, its series is written to the cache entry of its own key
\* and does not become the series the subscription exposes.
C27_LateFetchKeepsSeries ==
    (Done /\ ev.key # props[ev.hook]) =>
       /\ apiCache[ev.hook][ev.key].present
       /\ apiCache[ev.hook][ev.key].data = ev.data
       /\ stockData[ev.hook] # ev.data

\* Nothing is left to run for subscription h unless its key changes: no
\* effect is pending, no fetch is in flight and no timer is armed.
Settled(h) ==
    /\ status[h] = "mounted"
    /\ Flushed
    /\ inflight = {}
    /\ ~timer[h].armed

\* C28: once the key has stopped changing and every fetch has completed,
\* the series a subscription exposes comes to equal the cache entry of its
\* key: where nothing is left to run for the subscription, so that what it
\* exposes can change no more, it equals that entry.
C28_Convergence ==
    \A h \in Hooks :
       Settled(h) =>
          /\ apiCache[h][props[h]].present
          /\ stockData[h] = apiCache[h][props[h]].data

\* C29: in every state a subscription has at most one setInterval timer
\* that has not been cleared, the one the last effect run armed, and none
\* once it is unmounted.
C29_OneTimer ==
    \A h \in Hooks :
       /\ timer[h].live <= 1
       /\ timer[h].live = 1 <=> timer[h].armed
       /\ status[h] # "mounted" => timer[h].live = 0

\* An effect run has cleared the timer of the run before it and armed its
\* own.
C29_Witness ==
    /\ Called /\ ev.by = "effect" /\ ev.hadTimer
    /\ timer[ev.hook].armed
    /\ timer[ev.hook].live = 1

\* C30: the status the stall displays equals the status the container
\* computed and passed to it, for every series and every override, an
\* override and a stable short-horizon read escalated by the long-horizon
\* check included.
C30_DisplayConsistency ==
    pure.op = "classify" => pure.res.shown = pure.res.container

====
